---- MODULE Spec2Model ----
(***************************************************************************)
(* Kizuna DX: the legacy adapter (backend/src/middleware/legacyAdapter.ts) *)
(* that normalizes raw legacy task documents into NormalizedTask records.  *)
(*                                                                         *)
(* JavaScript strings are sequences of one-character strings, so that      *)
(* toLowerCase, trim, split and date parsing are computed character by     *)
(* character.  JavaScript values are records tagged with their type.       *)
(***************************************************************************)
EXTENDS Integers, Sequences, FiniteSets, TLC

VARIABLES
    raw,        \* the raw document handed to normalizeTask
    result,     \* what the latest call of normalizeTask on raw completed with
    now,        \* the wall clock, in milliseconds
    pc,         \* "ready" before the call or the middleware has run, "done" after
    locals,     \* res.locals of the request the middleware serves
    nextCalls,  \* the arguments next was called with, one entry a call
    raw2,       \* a second raw document, a separate object
    calls,      \* the calls of normalizeTask so far: who called, on what, with what outcome
    aliased,    \* the properties of result whose value is the very object raw holds
    pushes,     \* how often a caller has changed the result it was handed
    store,      \* the legacy_tasks collection: the documents, oldest first
    auditLog,   \* the audit log collection: the entries, oldest first
    req,        \* the request the backend served last
    res,        \* the response the backend sent to it
    lastWrite,  \* per task id, the status and priority the API wrote last
    served,     \* how many requests the backend has served
    tasks,      \* the tasks state of the Kanban page
    inflight,   \* the page's requests that have not settled yet
    moves       \* how many drag-and-drop moves the page has handled

vars == <<raw, result, now, pc, locals, nextCalls, raw2, calls, aliased, pushes,
          store, auditLog, req, res, lastWrite, served, tasks, inflight, moves>>

batchVars == <<locals, nextCalls>>

callerVars == <<raw2, calls, aliased, pushes>>

routeVars == <<store, auditLog, req, res, lastWrite, served>>

boardVars == <<tasks, inflight, moves>>

(***************************************************************************)
(* Bounds of the model.                                                    *)
(***************************************************************************)
\* Ticks of the wall clock (milliseconds) the model lets pass.
MaxNow == 2
\* Whitespace characters put in front of and behind a label.
MaxPad == 1

(***************************************************************************)
(* JavaScript values.                                                      *)
(***************************************************************************)
Undefined == [t |-> "undefined"]
Null == [t |-> "null"]
Str(s) == [t |-> "string", v |-> s]
Num(n) == [t |-> "number", v |-> n]
Arr(a) == [t |-> "array", v |-> a]
\* A mongoose ObjectId with the given hexadecimal text.
ObjectId(h) == [t |-> "objectid", v |-> h]
\* Object (the constructor function) and Object.prototype, which every
\* object literal inherits as "constructor" and "__proto__".
ObjectFunction == [t |-> "function", v |-> <<"O","b","j","e","c","t">>]
ObjectPrototypeObject == [t |-> "object", v |-> <<"O","b","j","e","c","t",".","p","r","o","t","o","t","y","p","e">>]
\* A thrown exception, as the completion of an evaluation.
Throw(e) == [t |-> "throw", v |-> e]

IsThrow(x) == x.t = "throw"

\* ToBoolean: undefined, null, "", 0 are falsy; everything else modelled is truthy.
Truthy(x) ==
    CASE x.t = "undefined" -> FALSE
      [] x.t = "null" -> FALSE
      [] x.t = "string" -> Len(x.v) > 0
      [] x.t = "number" -> x.v # 0
      [] OTHER -> TRUE

\* a || b
Or(a, b) == IF Truthy(a) THEN a ELSE b

(***************************************************************************)
(* Strings.                                                                *)
(***************************************************************************)
UpperCaseLetters == <<"A","B","C","D","E","F","G","H","I","J","K","L","M","N","O","P","Q","R","S","T","U","V","W","X","Y","Z">>
LowerCaseLetters == <<"a","b","c","d","e","f","g","h","i","j","k","l","m","n","o","p","q","r","s","t","u","v","w","x","y","z">>
DecimalDigits == <<"0","1","2","3","4","5","6","7","8","9">>
WhiteSpace == {" ", "\t", "\n"}

IndexIn(c, tup) == IF \E i \in 1..Len(tup) : tup[i] = c
                   THEN CHOOSE i \in 1..Len(tup) : tup[i] = c
                   ELSE 0

\* String.prototype.toLowerCase
toLowerCase(s) ==
    [i \in 1..Len(s) |->
        IF IndexIn(s[i], UpperCaseLetters) > 0
        THEN LowerCaseLetters[IndexIn(s[i], UpperCaseLetters)]
        ELSE s[i]]

\* String.prototype.toUpperCase (used to build inputs only)
toUpperCase(s) ==
    [i \in 1..Len(s) |->
        IF IndexIn(s[i], LowerCaseLetters) > 0
        THEN UpperCaseLetters[IndexIn(s[i], LowerCaseLetters)]
        ELSE s[i]]

\* String.prototype.trim: drops the whitespace at both ends, none inside.
trim(s) ==
    LET n == Len(s)
        inner == {i \in 1..n : s[i] \notin WhiteSpace}
    IN  IF inner = {} THEN <<>>
        ELSE SubSeq(s, CHOOSE i \in inner : \A j \in inner : i <= j,
                       CHOOSE i \in inner : \A j \in inner : i >= j)

\* The decimal text of a natural number.
RECURSIVE NatToString(_)
NatToString(n) ==
    IF n < 10 THEN <<DecimalDigits[n + 1]>>
    ELSE NatToString(n \div 10) \o <<DecimalDigits[(n % 10) + 1]>>

NumberToString(n) == IF n < 0 THEN <<"-">> \o NatToString(0 - n) ELSE NatToString(n)

\* String(x)
String(x) ==
    CASE x.t = "string" -> x.v
      [] x.t = "number" -> NumberToString(x.v)
      [] x.t = "undefined" -> <<"u","n","d","e","f","i","n","e","d">>
      [] x.t = "null" -> <<"n","u","l","l">>
      [] x.t = "objectid" -> x.v

\* String.prototype.split(sep) for a one-character separator.
RECURSIVE split(_, _)
split(s, sep) ==
    LET hits == {i \in 1..Len(s) : s[i] = sep}
    IN  IF hits = {} THEN <<s>>
        ELSE LET i == CHOOSE k \in hits : \A j \in hits : k <= j
             IN  <<SubSeq(s, 1, i - 1)>> \o split(SubSeq(s, i + 1, Len(s)), sep)

\* Array.prototype.map and filter, for the callbacks of resolveTags.
MapTrim(a) == [i \in 1..Len(a) |-> trim(a[i])]

RECURSIVE FilterBoolean(_)
FilterBoolean(a) ==
    IF Len(a) = 0 THEN <<>>
    ELSE (IF Len(Head(a)) > 0 THEN <<Head(a)>> ELSE <<>>) \o FilterBoolean(Tail(a))


(***************************************************************************)
(* The canonical enumerations (backend/src/types.ts) and the fixed         *)
(* fallback strings of the adapter.                                        *)
(***************************************************************************)
TODO == <<"T","O","D","O">>
IN_PROGRESS == <<"I","N","_","P","R","O","G","R","E","S","S">>
REVIEW == <<"R","E","V","I","E","W">>
DONE == <<"D","O","N","E">>
LOW == <<"L","O","W">>
MEDIUM == <<"M","E","D","I","U","M">>
HIGH == <<"H","I","G","H">>
CRITICAL == <<"C","R","I","T","I","C","A","L">>
TaskStatus == {TODO, IN_PROGRESS, REVIEW, DONE}
TaskPriority == {LOW, MEDIUM, HIGH, CRITICAL}
UntitledTask == <<"U","n","t","i","t","l","e","d"," ","T","a","s","k">>
Unassigned == <<"U","n","a","s","s","i","g","n","e","d">>

(***************************************************************************)
(* Object literals and property lookup.  A lookup obj[key] on an object    *)
(* literal finds the literal's own properties first and then those of      *)
(* Object.prototype.                                                       *)
(***************************************************************************)
ObjectPrototype ==
    (<<"c","o","n","s","t","r","u","c","t","o","r">> :> ObjectFunction) @@
    (<<"_","_","p","r","o","t","o","_","_">> :> ObjectPrototypeObject) @@
    (<<"t","o","S","t","r","i","n","g">> :> [t |-> "function", v |-> <<"t","o","S","t","r","i","n","g">>]) @@
    (<<"v","a","l","u","e","O","f">> :> [t |-> "function", v |-> <<"v","a","l","u","e","O","f">>]) @@
    (<<"h","a","s","O","w","n","P","r","o","p","e","r","t","y">> :> [t |-> "function", v |-> <<"h","a","s","O","w","n","P","r","o","p","e","r","t","y">>]) @@
    (<<"i","s","P","r","o","t","o","t","y","p","e","O","f">> :> [t |-> "function", v |-> <<"i","s","P","r","o","t","o","t","y","p","e","O","f">>]) @@
    (<<"t","o","L","o","c","a","l","e","S","t","r","i","n","g">> :> [t |-> "function", v |-> <<"t","o","L","o","c","a","l","e","S","t","r","i","n","g">>]) @@
    (<<"p","r","o","p","e","r","t","y","I","s","E","n","u","m","e","r","a","b","l","e">> :> [t |-> "function", v |-> <<"p","r","o","p","e","r","t","y","I","s","E","n","u","m","e","r","a","b","l","e">>])

\* obj[key], for an object literal whose own properties hold strings.
GetProperty(obj, key) ==
    IF key \in DOMAIN obj THEN Str(obj[key])
    ELSE IF key \in DOMAIN ObjectPrototype THEN ObjectPrototype[key]
    ELSE Undefined

statusMap ==
    (<<"t","o","d","o">> :> TODO) @@
    (<<"b","a","c","k","l","o","g">> :> TODO) @@
    (<<"0">> :> TODO) @@
    (<<"o","p","e","n">> :> TODO) @@
    (<<"i","n","_","p","r","o","g","r","e","s","s">> :> IN_PROGRESS) @@
    (<<"i","n"," ","p","r","o","g","r","e","s","s">> :> IN_PROGRESS) @@
    (<<"a","c","t","i","v","e">> :> IN_PROGRESS) @@
    (<<"w","i","p">> :> IN_PROGRESS) @@
    (<<"1">> :> IN_PROGRESS) @@
    (<<"d","o","i","n","g">> :> IN_PROGRESS) @@
    (<<"r","e","v","i","e","w">> :> REVIEW) @@
    (<<"p","e","n","d","i","n","g">> :> REVIEW) @@
    (<<"2">> :> REVIEW) @@
    (<<"i","n","_","r","e","v","i","e","w">> :> REVIEW) @@
    (<<"d","o","n","e">> :> DONE) @@
    (<<"c","o","m","p","l","e","t","e","d">> :> DONE) @@
    (<<"3">> :> DONE) @@
    (<<"c","l","o","s","e","d">> :> DONE) @@
    (<<"f","i","n","i","s","h","e","d">> :> DONE)

priorityMap ==
    (<<"l","o","w">> :> LOW) @@
    (<<"m","i","n","o","r">> :> LOW) @@
    (<<"1">> :> LOW) @@
    (<<"m","e","d","i","u","m">> :> MEDIUM) @@
    (<<"m","i","d">> :> MEDIUM) @@
    (<<"n","o","r","m","a","l">> :> MEDIUM) @@
    (<<"2">> :> MEDIUM) @@
    (<<"h","i","g","h">> :> HIGH) @@
    (<<"m","a","j","o","r">> :> HIGH) @@
    (<<"3">> :> HIGH) @@
    (<<"c","r","i","t","i","c","a","l">> :> CRITICAL) @@
    (<<"b","l","o","c","k","e","r">> :> CRITICAL) @@
    (<<"4">> :> CRITICAL) @@
    (<<"u","r","g","e","n","t">> :> CRITICAL)

(***************************************************************************)
(* Dates.  new Date(text) accepts the ISO-8601 date form YYYY-MM-DD and    *)
(* the timestamp form YYYY-MM-DDTHH:mm:ss.sssZ; any other text modelled    *)
(* gives an Invalid Date, on which toISOString throws a RangeError.        *)
(***************************************************************************)
InvalidDate == [valid |-> FALSE]

IsDigits(s) == \A i \in 1..Len(s) : IndexIn(s[i], DecimalDigits) > 0

RECURSIVE StringToNat(_)
StringToNat(s) ==
    IF Len(s) = 0 THEN 0
    ELSE 10 * StringToNat(SubSeq(s, 1, Len(s) - 1)) + (IndexIn(s[Len(s)], DecimalDigits) - 1)

IsLeapYear(y) == (y % 4 = 0 /\ y % 100 # 0) \/ y % 400 = 0

DaysInMonth(y, m) ==
    CASE m \in {4, 6, 9, 11} -> 30
      [] m = 2 -> IF IsLeapYear(y) THEN 29 ELSE 28
      [] OTHER -> 31

\* The date part YYYY-MM-DD at the front of s.
ParseDatePart(s) ==
    IF /\ Len(s) >= 10
       /\ s[5] = "-" /\ s[8] = "-"
       /\ IsDigits(SubSeq(s, 1, 4)) /\ IsDigits(SubSeq(s, 6, 7)) /\ IsDigits(SubSeq(s, 9, 10))
    THEN LET y == StringToNat(SubSeq(s, 1, 4))
             m == StringToNat(SubSeq(s, 6, 7))
             d == StringToNat(SubSeq(s, 9, 10))
         IN  IF m \in 1..12 /\ d >= 1 /\ d <= DaysInMonth(y, m)
             THEN [valid |-> TRUE, y |-> y, mo |-> m, d |-> d, h |-> 0, mi |-> 0, s |-> 0, ms |-> 0]
             ELSE InvalidDate
    ELSE InvalidDate

\* The time part THH:mm:ss.sssZ that follows the date part of s.
ParseTimePart(s, date) ==
    IF /\ Len(s) = 24
       /\ s[11] = "T" /\ s[14] = ":" /\ s[17] = ":" /\ s[20] = "." /\ s[24] = "Z"
       /\ IsDigits(SubSeq(s, 12, 13)) /\ IsDigits(SubSeq(s, 15, 16))
       /\ IsDigits(SubSeq(s, 18, 19)) /\ IsDigits(SubSeq(s, 21, 23))
    THEN LET h == StringToNat(SubSeq(s, 12, 13))
             mi == StringToNat(SubSeq(s, 15, 16))
             sec == StringToNat(SubSeq(s, 18, 19))
             ms == StringToNat(SubSeq(s, 21, 23))
         IN  IF h <= 23 /\ mi <= 59 /\ sec <= 59
             THEN [date EXCEPT !.h = h, !.mi = mi, !.s = sec, !.ms = ms]
             ELSE InvalidDate
    ELSE InvalidDate

\* new Date(x) for a string x.
NewDate(x) ==
    IF x.t # "string" THEN InvalidDate
    ELSE LET date == ParseDatePart(x.v)
         IN  IF ~date.valid THEN InvalidDate
             ELSE IF Len(x.v) = 10 THEN date
             ELSE ParseTimePart(x.v, date)

\* new Date() when the wall clock shows `clock` milliseconds past the epoch.
DateNow(clock) ==
    [valid |-> TRUE, y |-> 1970, mo |-> 1, d |-> 1, h |-> 0, mi |-> 0,
     s |-> (clock \div 1000) % 60, ms |-> clock % 1000]

\* The decimal text of n, zero-padded on the left to `width` characters.
RECURSIVE PadStart(_, _)
PadStart(n, width) ==
    IF width = 0 THEN <<>>
    ELSE PadStart(n \div 10, width - 1) \o <<DecimalDigits[(n % 10) + 1]>>

\* Date.prototype.toISOString
toISOString(date) ==
    IF ~date.valid THEN Throw("RangeError")
    ELSE Str(PadStart(date.y, 4) \o <<"-">> \o PadStart(date.mo, 2) \o <<"-">> \o PadStart(date.d, 2)
             \o <<"T">> \o PadStart(date.h, 2) \o <<":">> \o PadStart(date.mi, 2) \o <<":">>
             \o PadStart(date.s, 2) \o <<".">> \o PadStart(date.ms, 3) \o <<"Z">>)

(***************************************************************************)
(* The field resolvers of legacyAdapter.ts.                                *)
(***************************************************************************)
\* Variant: the name alias is tried before title.
resolveTitle_NameFirst(r) == Or(Or(Or(r.name, r.title), r.task_name), Str(UntitledTask))

\* Variant: the legacy reference stands in for a missing title.
resolveTitle_LegacyRefFallback(r) ==
    Or(Or(Or(Or(r.title, r.name), r.task_name), r.legacy_ref), Str(UntitledTask))

resolveTitle(r) == Or(Or(Or(r.title, r.name), r.task_name), Str(UntitledTask))

resolveDescription(r) == Or(Or(r.desc, r.description), Str(<<>>))

\* Variant: the code "2" is mapped as the doc comment of resolveStatus has it.
resolveStatus_Code2InProgress(r) ==
    LET s == trim(toLowerCase(String(Or(r.status, Str(<<>>)))))
    IN  IF s = <<"2">> THEN Str(IN_PROGRESS) ELSE Or(GetProperty(statusMap, s), Str(TODO))

\* Variant: only a status that is already a string is looked up.
resolveStatus_StringsOnly(r) ==
    LET s == IF r.status.t = "string" THEN trim(toLowerCase(r.status.v)) ELSE <<>>
    IN  Or(GetProperty(statusMap, s), Str(TODO))

\* Variant: the status text is not trimmed.
resolveStatus_NoTrim(r) ==
    LET s == toLowerCase(String(Or(r.status, Str(<<>>))))
    IN  Or(GetProperty(statusMap, s), Str(TODO))

resolveStatus(r) ==
    LET s == trim(toLowerCase(String(Or(r.status, Str(<<>>)))))
    IN  Or(GetProperty(statusMap, s), Str(TODO))

\* Variant: an unknown priority falls back to LOW.
resolvePriority_DefaultLow(r) ==
    LET p == trim(toLowerCase(String(Or(r.priority, Str(<<>>)))))
    IN  Or(GetProperty(priorityMap, p), Str(LOW))

resolvePriority(r) ==
    LET p == trim(toLowerCase(String(Or(r.priority, Str(<<>>)))))
    IN  Or(GetProperty(priorityMap, p), Str(MEDIUM))

\* Variant: no sentinel after the three aliases.
resolveAssignee_NoSentinel(r) == Or(Or(r.assignee, r.owner), r.member)

resolveAssignee(r) == Or(Or(Or(r.assignee, r.owner), r.member), Str(Unassigned))

\* Variant: the RangeError of toISOString is not caught.
resolveDueDate_NoCatch(r) ==
    LET raw_date == Or(Or(Or(r.due, r.due_date), r.deadline), Null)
    IN  IF ~Truthy(raw_date) THEN Null ELSE toISOString(NewDate(raw_date))

\* Variant: an unparsable due date is dropped instead of passed through.
resolveDueDate_NullOnFailure(r) ==
    LET raw_date == Or(Or(Or(r.due, r.due_date), r.deadline), Null)
    IN  IF ~Truthy(raw_date) THEN Null
        ELSE LET iso == toISOString(NewDate(raw_date))
             IN  IF IsThrow(iso) THEN Null ELSE iso

\* Variant: the raw due date is returned without being parsed.
resolveDueDate_RawPassthrough(r) ==
    LET raw_date == Or(Or(Or(r.due, r.due_date), r.deadline), Null)
    IN  IF ~Truthy(raw_date) THEN Null ELSE raw_date

\* Variant: the aliases are chained with ?? in place of ||.
resolveDueDate_NullishChain(r) ==
    LET Nullish(a, b) == IF a.t \in {"undefined", "null"} THEN b ELSE a
        raw_date == Nullish(Nullish(Nullish(r.due, r.due_date), r.deadline), Null)
    IN  IF raw_date.t = "null" THEN Null
        ELSE LET iso == toISOString(NewDate(raw_date))
             IN  IF IsThrow(iso) THEN raw_date ELSE iso

resolveDueDate(r) ==
    LET raw_date == Or(Or(Or(r.due, r.due_date), r.deadline), Null)
    IN  IF ~Truthy(raw_date) THEN Null
        ELSE LET iso == toISOString(NewDate(raw_date))
             IN  IF IsThrow(iso) THEN raw_date ELSE iso

\* Variant: the pieces of a tags string are not trimmed.
resolveTags_NoTrim(r) ==
    IF ~Truthy(r.tags) THEN Arr(<<>>)
    ELSE IF r.tags.t = "array" THEN r.tags
    ELSE LET pieces == FilterBoolean(split(String(r.tags), ","))
         IN  Arr([i \in 1..Len(pieces) |-> Str(pieces[i])])

\* Variant: the empty pieces of a tags string are kept.
resolveTags_NoFilter(r) ==
    IF ~Truthy(r.tags) THEN Arr(<<>>)
    ELSE IF r.tags.t = "array" THEN r.tags
    ELSE LET pieces == MapTrim(split(String(r.tags), ","))
         IN  Arr([i \in 1..Len(pieces) |-> Str(pieces[i])])

resolveTags(r) ==
    IF ~Truthy(r.tags) THEN Arr(<<>>)
    ELSE IF r.tags.t = "array" THEN r.tags
    ELSE LET pieces == FilterBoolean(MapTrim(split(String(r.tags), ",")))
         IN  Arr([i \in 1..Len(pieces) |-> Str(pieces[i])])

\* Variant: the id is the legacy system's id when the document has one.
normalizeTask_IdFromSysId(r, clock) ==
    LET task == [id |-> Str(String(Or(r.sys_id, r._id))),
                 title |-> resolveTitle(r),
                 description |-> resolveDescription(r),
                 status |-> resolveStatus(r),
                 priority |-> resolvePriority(r),
                 assignee |-> resolveAssignee(r),
                 dueDate |-> resolveDueDate(r),
                 tags |-> resolveTags(r),
                 normalizedAt |-> toISOString(DateNow(clock))]
    IN  [t |-> "return", v |-> task]

\* Variant: the due date is stamped with the time of the call when the raw
\* document has none.
normalizeTask_StampsDueDate(r, clock) ==
    LET due == resolveDueDate(r)
        task == [id |-> Str(String(r._id)),
                 title |-> resolveTitle(r),
                 description |-> resolveDescription(r),
                 status |-> resolveStatus(r),
                 priority |-> resolvePriority(r),
                 assignee |-> resolveAssignee(r),
                 dueDate |-> IF due = Null THEN toISOString(DateNow(clock)) ELSE due,
                 tags |-> resolveTags(r),
                 normalizedAt |-> toISOString(DateNow(clock))]
    IN  [t |-> "return", v |-> task]

\* The properties of a NormalizedTask, in the order normalizeTask evaluates them.
NormalizedTaskFields ==
    <<"id", "title", "description", "status", "priority", "assignee", "dueDate", "tags", "normalizedAt">>

\* normalizeTask(raw) at wall-clock time `clock`: the record it returns, or
\* the first exception an evaluation of a property raises.
normalizeTask(r, clock) ==
    LET task == [id |-> Str(String(r._id)),
                 title |-> resolveTitle(r),
                 description |-> resolveDescription(r),
                 status |-> resolveStatus(r),
                 priority |-> resolvePriority(r),
                 assignee |-> resolveAssignee(r),
                 dueDate |-> resolveDueDate(r),
                 tags |-> resolveTags(r),
                 normalizedAt |-> toISOString(DateNow(clock))]
        thrown == {i \in 1..Len(NormalizedTaskFields) : IsThrow(task[NormalizedTaskFields[i]])}
    IN  IF thrown = {} THEN [t |-> "return", v |-> task]
        ELSE task[NormalizedTaskFields[CHOOSE i \in thrown : \A j \in thrown : i <= j]]


(***************************************************************************)
(* Raw legacy documents (backend/src/models/LegacyTask.ts): every known    *)
(* key, Undefined when the document does not carry it, and two of the      *)
(* keys the adapter does not read (sys_id, legacy_ref).                    *)
(***************************************************************************)
EmptyRaw ==
    [_id |-> Undefined,
     title |-> Undefined, name |-> Undefined, task_name |-> Undefined,
     desc |-> Undefined, description |-> Undefined,
     status |-> Undefined, priority |-> Undefined,
     assignee |-> Undefined, owner |-> Undefined, member |-> Undefined,
     due |-> Undefined, due_date |-> Undefined, deadline |-> Undefined,
     tags |-> Undefined,
     sys_id |-> Undefined, legacy_ref |-> Undefined]

\* A stored document in the shape of the seeded ones (routes/tasks.ts).
SeededRaw ==
    [EmptyRaw EXCEPT
        !._id = ObjectId(<<"a","1">>),
        !.title = Str(<<"T">>),
        !.desc = Str(<<"d">>),
        !.status = Str(<<"d","o","n","e">>),
        !.priority = Str(<<"h","i","g","h">>),
        !.assignee = Str(<<"A">>),
        !.due_date = Str(<<"2","0","2","4","-","0","4","-","1","5">>),
        !.tags = Arr(<<Str(<<"x">>), Str(<<"y">>)>>),
        !.legacy_ref = Str(<<"J">>)]

BaseRecords == {EmptyRaw, SeededRaw}

Absent == {Undefined, Null, Str(<<>>)}

\* Labels outside both tables, among them property names of Object.prototype.
OtherLabels ==
    {<<>>,
     <<"5">>,
     <<"b","l","o","c","k","e","d">>,
     <<"i","n","-","p","r","o","g","r","e","s","s">>,
     <<"i","n"," "," ","p","r","o","g","r","e","s","s">>,
     <<"i","n","p","r","o","g","r","e","s","s">>,
     <<"c","o","n","s","t","r","u","c","t","o","r">>,
     <<"_","_","p","r","o","t","o","_","_">>,
     <<"t","o","S","t","r","i","n","g">>,
     <<"v","a","l","u","e","O","f">>}

Labels == DOMAIN statusMap \cup DOMAIN priorityMap \cup OtherLabels

Spaces(n) == [i \in 1..n |-> " "]

Capitalize(s) == IF Len(s) = 0 THEN s ELSE toUpperCase(SubSeq(s, 1, 1)) \o SubSeq(s, 2, Len(s))

\* The spellings of a label that differ from it in letter case only.
CaseVariants(label) == {label, toUpperCase(label), Capitalize(label)}

\* The spellings of a label that differ from it in leading or trailing whitespace only.
PadVariants(label) == {Spaces(i) \o label \o Spaces(j) : i \in 0..MaxPad, j \in 0..MaxPad}

Variants(label) == UNION {PadVariants(c) : c \in CaseVariants(label)}

LabelTexts == (UNION {Variants(l) : l \in Labels}) \cup {<<"\t","d","o","n","e","\n">>}

\* Values of the status and priority keys: string | number, or absent.
CodeValues == {Undefined, Null} \cup {Num(n) : n \in (0 - 1)..5} \cup {Str(s) : s \in LabelTexts}

TitleInputs ==
    {[b EXCEPT !.title = x, !.name = y, !.task_name = z] :
        b \in BaseRecords,
        x \in Absent \cup {Str(<<"T">>), Str(<<" ">>)},
        y \in Absent \cup {Str(<<"N">>)},
        z \in Absent \cup {Str(<<"K">>)}}

DescriptionInputs ==
    {[b EXCEPT !.desc = x, !.description = y] :
        b \in BaseRecords, x \in Absent \cup {Str(<<"d">>)}, y \in Absent \cup {Str(<<"e">>)}}

StatusInputs == {[b EXCEPT !.status = x] : b \in BaseRecords, x \in CodeValues}

PriorityInputs == {[b EXCEPT !.priority = x] : b \in BaseRecords, x \in CodeValues}

AssigneeInputs ==
    {[b EXCEPT !.assignee = x, !.owner = y, !.member = z] :
        b \in BaseRecords,
        x \in Absent \cup {Str(<<"A">>), Str(<<" ">>)},
        y \in Absent \cup {Str(<<"O">>)},
        z \in Absent \cup {Str(<<"M">>)}}

DueDateInputs ==
    {[b EXCEPT !.due = x, !.due_date = y, !.deadline = z] :
        b \in BaseRecords,
        x \in Absent \cup {Str(<<"n","o","t","-","a","-","d","a","t","e">>),
                           Str(<<"2","0","2","4","-","0","4","-","3","0">>)},
        y \in {Undefined, Str(<<>>),
               Str(<<"2","0","2","4","-","0","4","-","1","5">>),
               Str(<<"2","0","2","4","-","0","4","-","1","5","T","0","9",":","3","0",":","0","0",".","0","0","0","Z">>),
               Str(<<"2","0","2","4","-","1","3","-","4","5">>)},
        z \in {Undefined, Str(<<"2","0","2","4","-","0","5","-","0","1">>), Str(<<"s","o","o","n">>)}}

TagsInputs ==
    {[b EXCEPT !.tags = x] :
        b \in BaseRecords,
        x \in Absent \cup
              {Str(<<"a",","," ","b"," ",",","c">>),
               Str(<<"x">>),
               Str(<<","," ",",">>),
               Str(<<"d","e","s","i","g","n",",","r","e","v","i","e","w">>),
               Num(0), Num(7),
               Arr(<<>>),
               Arr(<<Str(<<"x">>), Str(<<"y">>)>>),
               Arr(<<Str(<<>>), Str(<<" ","a"," ">>)>>)}}

UnreadKeyInputs ==
    {[b EXCEPT !._id = i, !.sys_id = x, !.legacy_ref = y] :
        b \in BaseRecords,
        i \in {ObjectId(<<"a","1">>), ObjectId(<<"b","2">>)},
        x \in {Undefined, Str(<<"S">>)},
        y \in {Undefined, Str(<<"J">>)}}

\* The raw documents the model normalizes: each group of alias keys is
\* varied over its values on top of an empty and of a seeded document.
RawRecords ==
    TitleInputs \cup DescriptionInputs \cup StatusInputs \cup PriorityInputs \cup
    AssigneeInputs \cup DueDateInputs \cup TagsInputs \cup UnreadKeyInputs

(***************************************************************************)
(* The state machine: one call of normalizeTask on a raw document, while   *)
(* the wall clock advances.                                                *)
(***************************************************************************)
NoResult == [t |-> "none"]

\* res.locals of a request that fetched no raw tasks.
NoLocals == [rawTasks |-> Undefined, tasks |-> Undefined]

\* No request served yet, no response sent.
NoRequest == [method |-> "none"]
NoResponse == [status |-> 0]

\* The backend and the Kanban page before anything has happened.
RoutesIdle ==
    /\ store = <<>>
    /\ auditLog = <<>>
    /\ req = NoRequest
    /\ res = NoResponse
    /\ lastWrite = <<>>
    /\ served = 0

BoardIdle ==
    /\ tasks = <<>>
    /\ inflight = {}
    /\ moves = 0

Init ==
    /\ raw \in RawRecords
    /\ result = NoResult
    /\ now = 0
    /\ pc = "ready"
    /\ locals = NoLocals
    /\ nextCalls = <<>>
    /\ raw2 = EmptyRaw
    /\ calls = <<>>
    /\ aliased = {}
    /\ pushes = 0
    /\ RoutesIdle
    /\ BoardIdle

\* normalizeTask(raw) is called and completes.
NormalizeTaskCall ==
    /\ pc = "ready"
    /\ result' = normalizeTask(raw, now)
    /\ pc' = "done"
    /\ UNCHANGED <<raw, now, batchVars, callerVars, routeVars, boardVars>>

\* A millisecond of wall-clock time passes.
Tick ==
    /\ now < MaxNow
    /\ now' = now + 1
    /\ UNCHANGED <<raw, result, pc, batchVars, callerVars, routeVars, boardVars>>

Next == NormalizeTaskCall \/ Tick

Spec == Init /\ [][Next]_vars


(***************************************************************************)
(* legacyAdapterMiddleware: the batch form.  It maps normalizeTask over    *)
(* res.locals.rawTasks, sets res.locals.tasks and calls next.              *)
(***************************************************************************)
\* Documents a request has fetched at most.
MaxBatch == 3

\* next() called without an argument.
NoArgument == [t |-> "undefined"]

\* Variant: the canonical records come out in reverse order.
ArrayMapNormalizeTask_Reversed(rawTasks, clock) ==
    [i \in 1..Len(rawTasks) |-> normalizeTask(rawTasks[Len(rawTasks) + 1 - i], clock)]

\* The TypeError of reading a property of null.
TypeError == [message |-> "Cannot read properties of null (reading '_id')", statusCode |-> Undefined]

\* rawTasks.map(normalizeTask): the completions of the calls, in order.  The
\* whole batch is stamped with one reading of the clock.  An element that is
\* null is no document: reading its _id raises.
ArrayMapNormalizeTask(rawTasks, clock) ==
    [i \in 1..Len(rawTasks) |->
        IF rawTasks[i] = Null THEN Throw(TypeError) ELSE normalizeTask(rawTasks[i], clock)]

\* Variant: the return in front of next(err) is missing.
legacyAdapterMiddleware_NoReturn(loc, clock) ==
    IF Truthy(loc.rawTasks)
    THEN LET mapped == ArrayMapNormalizeTask(loc.rawTasks.v, clock)
             thrown == {i \in 1..Len(mapped) : IsThrow(mapped[i])}
         IN  IF thrown # {}
             THEN [locals |-> loc,
                   next |-> <<mapped[CHOOSE i \in thrown : \A j \in thrown : i <= j], NoArgument>>]
             ELSE [locals |-> [loc EXCEPT !.tasks = Arr([i \in 1..Len(mapped) |-> mapped[i].v])],
                   next |-> <<NoArgument>>]
    ELSE [locals |-> loc, next |-> <<NoArgument>>]

\* The middleware on res.locals: the locals it leaves and the calls of next
\* it makes.
legacyAdapterMiddleware(loc, clock) ==
    IF Truthy(loc.rawTasks)
    THEN LET mapped == ArrayMapNormalizeTask(loc.rawTasks.v, clock)
             thrown == {i \in 1..Len(mapped) : IsThrow(mapped[i])}
         IN  IF thrown # {}
             THEN [locals |-> loc,
                   next |-> <<mapped[CHOOSE i \in thrown : \A j \in thrown : i <= j]>>]
             ELSE [locals |-> [loc EXCEPT !.tasks = Arr([i \in 1..Len(mapped) |-> mapped[i].v])],
                   next |-> <<NoArgument>>]
    ELSE [locals |-> loc, next |-> <<NoArgument>>]

\* Stored documents, told apart by their _id.
BatchRecords ==
    {[EmptyRaw EXCEPT !._id = ObjectId(<<"a","1">>), !.title = Str(<<"T">>)],
     [SeededRaw EXCEPT !._id = ObjectId(<<"b","2">>)],
     [EmptyRaw EXCEPT !._id = ObjectId(<<"c","3">>), !.task_name = Str(<<"K">>),
                      !.status = Str(<<"2">>), !.tags = Str(<<"a",","," ","b"," ",",","c">>)]}

\* What the route handler in front of the middleware leaves in
\* res.locals.rawTasks: nothing, or the documents it found.
RawTaskBatches ==
    {Undefined} \cup {Arr(b) : b \in UNION {[1..n -> BatchRecords] : n \in 0..MaxBatch}}

InitBatch ==
    /\ raw = EmptyRaw
    /\ result = NoResult
    /\ now = 0
    /\ pc = "ready"
    /\ locals \in {[NoLocals EXCEPT !.rawTasks = b] : b \in RawTaskBatches}
    /\ nextCalls = <<>>
    /\ raw2 = EmptyRaw
    /\ calls = <<>>
    /\ aliased = {}
    /\ pushes = 0
    /\ RoutesIdle
    /\ BoardIdle

\* The middleware runs on the request.
LegacyAdapterMiddleware ==
    /\ pc = "ready"
    /\ locals' = legacyAdapterMiddleware(locals, now).locals
    /\ nextCalls' = nextCalls \o legacyAdapterMiddleware(locals, now).next
    /\ pc' = "done"
    /\ UNCHANGED <<raw, result, now, callerVars, routeVars, boardVars>>

NextBatch == LegacyAdapterMiddleware \/ Tick

SpecBatch == InitBatch /\ [][NextBatch]_vars

\* The middleware on its own, handed whatever res.locals.rawTasks may hold:
\* the batches above, and arrays with an element that is no document.
MalformedBatches ==
    {Arr(<<Null>>)} \cup {Arr(<<r, Null>>) : r \in BatchRecords} \cup {Arr(<<Null, r>>) : r \in BatchRecords}

InitMiddleware ==
    /\ raw = EmptyRaw
    /\ result = NoResult
    /\ now = 0
    /\ pc = "ready"
    /\ locals \in {[NoLocals EXCEPT !.rawTasks = b] : b \in RawTaskBatches \cup MalformedBatches}
    /\ nextCalls = <<>>
    /\ raw2 = EmptyRaw
    /\ calls = <<>>
    /\ aliased = {}
    /\ pushes = 0
    /\ RoutesIdle
    /\ BoardIdle

SpecMiddleware == InitMiddleware /\ [][NextBatch]_vars

(***************************************************************************)
(* Callers of normalizeTask.  Several callers hold the same raw document   *)
(* (raw) and an equal or different second one (raw2); each may normalize   *)
(* either at any time, and the holder of a returned record may push onto   *)
(* its tags.  The array resolveTags returns for an array input is the raw  *)
(* document's own array, so the push reaches the document.                 *)
(***************************************************************************)
\* Calls of normalizeTask followed.
MaxCalls == 3

\* Elements pushed onto the tags of a returned record.
MaxPushes == 2

Callers == {1, 2}

Targets == {"raw", "raw2"}

\* Variant: normalizeTask stores the status it resolved in the raw document.
RawAfterNormalize_WritesBack(r) == [r EXCEPT !.status = resolveStatus(r)]

\* The raw document after normalizeTask(raw): the function and the
\* resolvers only read properties of raw, none assigns to one.
RawAfterNormalize(r) == r

\* The properties of the returned record whose value is the very object
\* the raw document holds under the same name.
AliasedFields(r) ==
    IF Truthy(r.tags) /\ r.tags.t = "array" THEN {"tags"} ELSE {}

\* array.push(e)
push(a, e) == Arr(Append(a.v, e))

CallerRecords ==
    {[EmptyRaw EXCEPT !._id = ObjectId(<<"a","1">>), !.title = Str(<<"T">>),
                      !.tags = Arr(<<Str(<<"x">>), Str(<<"y">>)>>)],
     [EmptyRaw EXCEPT !._id = ObjectId(<<"b","2">>), !.status = Str(<<"2">>),
                      !.due = Str(<<"2","0","2","4","-","0","1","-","1","5">>),
                      !.tags = Str(<<"x",",","y">>)],
     [EmptyRaw EXCEPT !._id = ObjectId(<<"c","3">>)],
     SeededRaw}

InitCallers ==
    /\ raw \in CallerRecords
    /\ raw2 \in {raw, SeededRaw}
    /\ result = NoResult
    /\ now = 0
    /\ pc = "ready"
    /\ locals = NoLocals
    /\ nextCalls = <<>>
    /\ calls = <<>>
    /\ aliased = {}
    /\ pushes = 0
    /\ RoutesIdle
    /\ BoardIdle

\* Caller c calls normalizeTask on one of the two documents.  The call is
\* recorded with the document as it was before and as it is after; the
\* record returned for raw is the one a caller may go on to change.
CallerNormalize(c, target) ==
    LET input == IF target = "raw" THEN raw ELSE raw2
    IN  /\ Len(calls) < MaxCalls
        /\ calls' = Append(calls, [caller |-> c, on |-> target, input |-> input,
                                   output |-> normalizeTask(input, now),
                                   left |-> RawAfterNormalize(input)])
        /\ IF target = "raw"
           THEN /\ raw' = RawAfterNormalize(raw)
                /\ result' = normalizeTask(raw, now)
                /\ aliased' = AliasedFields(raw)
                /\ pc' = "done"
                /\ UNCHANGED raw2
           ELSE /\ raw2' = RawAfterNormalize(raw2)
                /\ UNCHANGED <<raw, result, aliased, pc>>
        /\ UNCHANGED <<now, batchVars, pushes, routeVars, boardVars>>

\* The holder of the record returned for raw does task.tags.push("z").
CallerPushTag ==
    /\ pc = "done"
    /\ result.t = "return"
    /\ pushes < MaxPushes
    /\ result' = [result EXCEPT !.v.tags = push(@, Str(<<"z">>))]
    /\ raw' = IF "tags" \in aliased THEN [raw EXCEPT !.tags = push(@, Str(<<"z">>))] ELSE raw
    /\ pushes' = pushes + 1
    /\ UNCHANGED <<now, pc, batchVars, raw2, calls, aliased, routeVars, boardVars>>

NextCallers ==
    \/ \E c \in Callers, target \in Targets : CallerNormalize(c, target)
    \/ CallerPushTag
    \/ Tick

SpecCallers == InitCallers /\ [][NextCallers]_vars

(***************************************************************************)
(* The task routes (backend/src/routes/tasks.ts) behind authenticate and   *)
(* validate, in front of the global error handler.  A request is served    *)
(* in one step; each database call it awaits may be rejected.              *)
(***************************************************************************)
\* Requests the backend serves.
MaxRequests == 2

\* What a request carries to authenticate it, and the NODE_ENV of the
\* process that serves it.
Credentials ==
    {[env |-> "production", authorization |-> "absent", devUser |-> Undefined],
     [env |-> "development", authorization |-> "absent", devUser |-> Undefined],
     [env |-> "production", authorization |-> "bearer", user |-> [id |-> 2, role |-> "EMPLOYEE"],
      devUser |-> Undefined]}

\* A response with a JSON body.
Json(status, body) == [status |-> status, body |-> body]

ApiError(code, message) == Json(code, [success |-> FALSE, error |-> message, code |-> code])

ApiSuccess(code, data) == Json(code, [success |-> TRUE, data |-> data])

\* authenticate: req.user when it calls next, the response it sends when
\* it does not.
authenticate(h) ==
    IF h.env = "development" /\ Truthy(h.devUser)
    THEN [next |-> TRUE, user |-> h.devUser.v]
    ELSE IF h.authorization = "absent"
    THEN IF h.env = "development"
         THEN [next |-> TRUE, user |-> [id |-> 1, role |-> "ADMIN"]]
         ELSE [next |-> FALSE, res |-> ApiError(401, "Unauthorized")]
    ELSE IF h.authorization = "bearer"
    THEN [next |-> TRUE, user |-> h.user]
    ELSE [next |-> FALSE, res |-> ApiError(401, "Invalid or expired token")]

\* An error a rejected database call raises, and createError(404, ...).
DbError == [message |-> "database unavailable", statusCode |-> Undefined]

NotFound == [message |-> "Task not found", statusCode |-> Num(404)]

\* globalErrorHandler: err.statusCode || err.code || 500.
globalErrorHandler(err) ==
    ApiError(Or(err.statusCode, Num(500)).v, err.message)

\* z.enum(values): the value is one of the values, spelled as they are.
ZEnum(x, values) == x.t = "string" /\ x.v \in values

\* createTaskSchema.safeParse(body): the parsed data with the defaults
\* filled in.
createTaskSchema(body) ==
    LET status == IF body.status = Undefined THEN Str(TODO) ELSE body.status
        priority == IF body.priority = Undefined THEN Str(MEDIUM) ELSE body.priority
    IN  IF /\ body.title.t = "string" /\ Len(body.title.v) >= 1
           /\ ZEnum(status, TaskStatus)
           /\ ZEnum(priority, TaskPriority)
        THEN [success |-> TRUE,
              data |-> [title |-> body.title, description |-> Str(<<>>), status |-> status,
                        priority |-> priority, assignee |-> Str(Unassigned),
                        dueDate |-> Undefined, tags |-> Arr(<<>>)]]
        ELSE [success |-> FALSE]

\* updateTaskStatusSchema.safeParse(body)
updateTaskStatusSchema(body) ==
    IF ZEnum(body.status, TaskStatus)
    THEN [success |-> TRUE, data |-> [status |-> body.status]]
    ELSE [success |-> FALSE]

\* The _id of the document the request numbered n creates.
NewId(n) == <<"n", NumberToString(n)[1]>>

\* The positions of the documents with the _id `id`.
FindById(st, id) == {i \in 1..Len(st) : st[i]._id = ObjectId(id)}

\* store.find().sort({ createdAt: -1 }): newest first.
FindSorted(st) == [i \in 1..Len(st) |-> st[Len(st) + 1 - i]]

Remove(st, i) == SubSeq(st, 1, i - 1) \o SubSeq(st, i + 1, Len(st))

\* Variant: a "_" of the enum name is stored as "-".
createTaskDocument_Hyphenated(id, body) ==
    LET Hyphenate(s) == [i \in 1..Len(s) |-> IF s[i] = "_" THEN "-" ELSE s[i]]
    IN
    [EmptyRaw EXCEPT
        !._id = ObjectId(id),
        !.title = body.title,
        !.desc = body.description,
        !.status = Str(Hyphenate(toLowerCase(body.status.v))),
        !.priority = Str(toLowerCase(body.priority.v)),
        !.assignee = body.assignee,
        !.due_date = body.dueDate,
        !.tags = body.tags]

\* The document LegacyTask.create stores for a validated body.
createTaskDocument(id, body) ==
    [EmptyRaw EXCEPT
        !._id = ObjectId(id),
        !.title = body.title,
        !.desc = body.description,
        !.status = Str(toLowerCase(body.status.v)),
        !.priority = Str(toLowerCase(body.priority.v)),
        !.assignee = body.assignee,
        !.due_date = body.dueDate,
        !.tags = body.tags]

\* An audit log entry.
AuditEntry(action, user, id) ==
    [action |-> action, actorId |-> user.id, targetType |-> "Task", targetId |-> id]

\* What a route handler leaves behind: the collections, the response sent,
\* by the handler or by the global error handler, and the calls of next.
Sent(st, log, response) ==
    [store |-> st, auditLog |-> log, res |-> response, next |-> <<>>]

Failed(st, log, err) ==
    [store |-> st, auditLog |-> log, res |-> globalErrorHandler(err), next |-> <<Throw(err)>>]

\* Variant: a failed read is served as an empty collection.
getTasksHandler_EmptyOnFailure(st, io) ==
    [locals |-> [NoLocals EXCEPT !.rawTasks =
                    IF io = "readFails" THEN Arr(<<>>) ELSE Arr(FindSorted(st))],
     next |-> <<NoArgument>>]

\* GET /: the first handler.  It leaves the documents in res.locals.rawTasks
\* and calls next, with the error when the read is rejected.
getTasksHandler(st, io) ==
    IF io = "readFails"
    THEN [locals |-> NoLocals, next |-> <<Throw(DbError)>>]
    ELSE [locals |-> [NoLocals EXCEPT !.rawTasks = Arr(FindSorted(st))], next |-> <<NoArgument>>]

\* POST /: create the document, log it, answer with the normalized task.
postTaskHandler(st, log, user, id, body, io, clock) ==
    IF io = "writeFails" THEN Failed(st, log, DbError)
    ELSE LET task == createTaskDocument(id, body)
         IN  IF io = "auditFails" THEN Failed(Append(st, task), log, DbError)
             ELSE Sent(Append(st, task),
                       Append(log, AuditEntry("TASK_CREATED", user, id)),
                       ApiSuccess(201, normalizeTask(task, clock).v))

\* PATCH /:id: find the document, set its status, save it, log it.
patchTaskHandler(st, log, user, id, body, io, clock) ==
    IF io = "readFails" THEN Failed(st, log, DbError)
    ELSE IF FindById(st, id) = {} THEN Failed(st, log, NotFound)
    ELSE LET i == CHOOSE j \in FindById(st, id) : TRUE
             task == [st[i] EXCEPT !.status = Str(toLowerCase(body.status.v))]
             saved == [st EXCEPT ![i] = task]
         IN  IF io = "auditFails" THEN Failed(saved, log, DbError)
             ELSE Sent(saved,
                       Append(log, AuditEntry("TASK_STATUS_UPDATED", user, id)),
                       ApiSuccess(200, normalizeTask(task, clock).v))

\* DELETE /:id: find and delete the document, log it.
deleteTaskHandler(st, log, user, id, io) ==
    IF io = "writeFails" THEN Failed(st, log, DbError)
    ELSE IF FindById(st, id) = {} THEN Failed(st, log, NotFound)
    ELSE LET i == CHOOSE j \in FindById(st, id) : TRUE
         IN  IF io = "auditFails" THEN Failed(Remove(st, i), log, DbError)
             ELSE Sent(Remove(st, i),
                       Append(log, AuditEntry("TASK_DELETED", user, id)),
                       ApiSuccess(200, [id |-> Str(id)]))

\* Bodies of POST /: a status and a priority of the enums, neither, a
\* status that is not of the enum.
CreateBodies ==
    {[title |-> Str(<<"T">>), status |-> Str(TODO), priority |-> Str(LOW)],
     [title |-> Str(<<"T">>), status |-> Str(IN_PROGRESS), priority |-> Str(MEDIUM)],
     [title |-> Str(<<"T">>), status |-> Str(REVIEW), priority |-> Str(HIGH)],
     [title |-> Str(<<"T">>), status |-> Str(DONE), priority |-> Str(CRITICAL)],
     [title |-> Str(<<"T">>), status |-> Undefined, priority |-> Undefined],
     [title |-> Str(<<"T">>), status |-> Str(<<"d","o","n","e">>), priority |-> Undefined]}

\* Bodies of PATCH /:id.
UpdateBodies ==
    {[status |-> Str(s)] : s \in TaskStatus} \cup {[status |-> Str(<<"d","o","n","e">>)]}

\* The collection as the seed route leaves it, in two documents.
SeededStore ==
    <<[SeededRaw EXCEPT !.status = Str(<<"i","n","-","p","r","o","g","r","e","s","s">>)],
      [EmptyRaw EXCEPT !._id = ObjectId(<<"b","2">>), !.task_name = Str(<<"K">>),
                       !.status = Str(<<"2">>), !.priority = Str(<<"2">>),
                       !.tags = Str(<<"a",",","b">>)]>>

\* The ids a request may name: those of the stored documents and one of none.
RequestIds(st) == {st[i]._id.v : i \in 1..Len(st)} \cup {<<"z","9">>}

\* The request as the handlers see it, with the outcome of the database
\* calls made for it.
Request(method, h, id, body, io) ==
    [method |-> method, id |-> id, body |-> body, io |-> io,
     user |-> IF authenticate(h).next THEN [t |-> "user", v |-> authenticate(h).user] ELSE Undefined]

\* lastWrite after a write of status s and priority p to the task id.
Written(written, id, s, p) ==
    [k \in DOMAIN written \cup {id} |-> IF k = id THEN [status |-> s, priority |-> p] ELSE written[k]]

Forgotten(written, id) == [k \in DOMAIN written \ {id} |-> written[k]]

InitRoutes ==
    /\ raw = EmptyRaw
    /\ result = NoResult
    /\ now = 0
    /\ pc = "ready"
    /\ locals = NoLocals
    /\ nextCalls = <<>>
    /\ raw2 = EmptyRaw
    /\ calls = <<>>
    /\ aliased = {}
    /\ pushes = 0
    /\ store \in {<<>>, SeededStore}
    /\ auditLog = <<>>
    /\ req = NoRequest
    /\ res = NoResponse
    /\ lastWrite = <<>>
    /\ served = 0
    /\ BoardIdle

\* GET /api/tasks: authenticate, the handler, legacyAdapterMiddleware and
\* the handler that sends res.locals.tasks; a call of next with an error
\* skips to the global error handler.
GetTasks(h, io) ==
    /\ served < MaxRequests
    /\ served' = served + 1
    /\ req' = Request("GET", h, <<>>, Undefined, io)
    /\ IF ~authenticate(h).next
       THEN /\ res' = authenticate(h).res
            /\ locals' = NoLocals
            /\ nextCalls' = <<>>
       ELSE \E first \in {getTasksHandler(store, io)} :
              IF first.next[1] # NoArgument
              THEN /\ locals' = first.locals
                   /\ nextCalls' = first.next
                   /\ res' = globalErrorHandler(first.next[1].v)
              ELSE \E second \in {legacyAdapterMiddleware(first.locals, now)} :
                     /\ locals' = second.locals
                     /\ nextCalls' = first.next \o second.next
                     /\ res' = IF second.next[1] = NoArgument
                               THEN ApiSuccess(200, second.locals.tasks)
                               ELSE globalErrorHandler(second.next[1].v)
    /\ UNCHANGED <<store, auditLog, lastWrite>>
    /\ UNCHANGED <<raw, result, now, pc, callerVars, boardVars>>

\* POST /api/tasks: authenticate, validate(createTaskSchema), the handler.
PostTask(h, body, io) ==
    /\ served < MaxRequests
    /\ served' = served + 1
    /\ locals' = NoLocals
    /\ \E parsed \in {createTaskSchema(body)} :
         /\ req' = Request("POST", h, <<>>, IF parsed.success THEN parsed.data ELSE body, io)
         /\ IF ~authenticate(h).next
            THEN /\ res' = authenticate(h).res
                 /\ nextCalls' = <<>>
                 /\ UNCHANGED <<store, auditLog, lastWrite>>
            ELSE IF ~parsed.success
            THEN /\ res' = ApiError(400, "Validation failed")
                 /\ nextCalls' = <<>>
                 /\ UNCHANGED <<store, auditLog, lastWrite>>
            ELSE \E done \in {postTaskHandler(store, auditLog, authenticate(h).user,
                                              NewId(served), parsed.data, io, now)} :
                   /\ res' = done.res
                   /\ nextCalls' = done.next
                   /\ store' = done.store
                   /\ auditLog' = done.auditLog
                   /\ lastWrite' = IF done.store # store
                                   THEN Written(lastWrite, NewId(served),
                                                parsed.data.status.v, parsed.data.priority.v)
                                   ELSE lastWrite
    /\ UNCHANGED <<raw, result, now, pc, callerVars, boardVars>>

\* PATCH /api/tasks/:id: authenticate, validate(updateTaskStatusSchema),
\* the handler.
PatchTask(h, id, body, io) ==
    /\ served < MaxRequests
    /\ served' = served + 1
    /\ req' = Request("PATCH", h, id, body, io)
    /\ locals' = NoLocals
    /\ \E parsed \in {updateTaskStatusSchema(body)} :
         IF ~authenticate(h).next
         THEN /\ res' = authenticate(h).res
              /\ nextCalls' = <<>>
              /\ UNCHANGED <<store, auditLog, lastWrite>>
         ELSE IF ~parsed.success
         THEN /\ res' = ApiError(400, "Validation failed")
              /\ nextCalls' = <<>>
              /\ UNCHANGED <<store, auditLog, lastWrite>>
         ELSE \E done \in {patchTaskHandler(store, auditLog, authenticate(h).user,
                                             id, parsed.data, io, now)} :
                /\ res' = done.res
                /\ nextCalls' = done.next
                /\ store' = done.store
                /\ auditLog' = done.auditLog
                /\ lastWrite' = IF done.store # store
                                THEN Written(lastWrite, id, parsed.data.status.v,
                                             IF id \in DOMAIN lastWrite
                                             THEN lastWrite[id].priority ELSE <<>>)
                                ELSE lastWrite
    /\ UNCHANGED <<raw, result, now, pc, callerVars, boardVars>>

\* DELETE /api/tasks/:id: authenticate, the handler.
DeleteTask(h, id, io) ==
    /\ served < MaxRequests
    /\ served' = served + 1
    /\ req' = Request("DELETE", h, id, Undefined, io)
    /\ locals' = NoLocals
    /\ IF ~authenticate(h).next
       THEN /\ res' = authenticate(h).res
            /\ nextCalls' = <<>>
            /\ UNCHANGED <<store, auditLog, lastWrite>>
       ELSE \E done \in {deleteTaskHandler(store, auditLog, authenticate(h).user, id, io)} :
              /\ res' = done.res
              /\ nextCalls' = done.next
              /\ store' = done.store
              /\ auditLog' = done.auditLog
              /\ lastWrite' = IF done.store # store THEN Forgotten(lastWrite, id) ELSE lastWrite
    /\ UNCHANGED <<raw, result, now, pc, callerVars, boardVars>>

NextRoutes ==
    \/ \E h \in Credentials, io \in {"ok", "readFails"} : GetTasks(h, io)
    \/ \E h \in Credentials, body \in CreateBodies, io \in {"ok", "writeFails", "auditFails"} :
          PostTask(h, body, io)
    \/ \E h \in Credentials, id \in RequestIds(store), body \in UpdateBodies,
          io \in {"ok", "readFails", "auditFails"} : PatchTask(h, id, body, io)
    \/ \E h \in Credentials, id \in RequestIds(store), io \in {"ok", "writeFails", "auditFails"} :
          DeleteTask(h, id, io)

SpecRoutes == InitRoutes /\ [][NextRoutes]_vars

(***************************************************************************)
(* The Kanban page (frontend/src/app/kanban/page.tsx) against the task     *)
(* routes.  The page fetches the tasks when it mounts; a drag-and-drop     *)
(* move sets the status on the page at once and sends a PATCH, and a       *)
(* failed PATCH makes the page fetch the tasks again.  Requests are served *)
(* and settle in any order.                                                *)
(***************************************************************************)
\* Drag-and-drop moves followed.
MaxMoves == 2

\* The x-dev-user header the API client sends with every request.
DevUserHeader ==
    [env |-> "development", authorization |-> "absent",
     devUser |-> [t |-> "user", v |-> [id |-> 1, role |-> "ADMIN"]]]

\* A request of the page that has not settled: what was asked, how far it
\* has come ("sent", then "resolved" or "rejected"), and the data of the
\* response.
FetchTasksRequest(n) == [kind |-> "getTasks", n |-> n, phase |-> "sent", data |-> Undefined]

UpdateTaskStatusRequest(n, id, status) ==
    [kind |-> "updateTaskStatus", n |-> n, phase |-> "sent", id |-> id, status |-> status]

\* p.map(t => t.id === id ? { ...t, status: target } : t)
SetStatus(list, id, target) ==
    [i \in 1..Len(list) |-> IF list[i].id = id THEN [list[i] EXCEPT !.status = target] ELSE list[i]]

InitKanban ==
    /\ raw = EmptyRaw
    /\ result = NoResult
    /\ now = 0
    /\ pc = "ready"
    /\ locals = NoLocals
    /\ nextCalls = <<>>
    /\ raw2 = EmptyRaw
    /\ calls = <<>>
    /\ aliased = {}
    /\ pushes = 0
    /\ store = SeededStore
    /\ auditLog = <<>>
    /\ req = NoRequest
    /\ res = NoResponse
    /\ lastWrite = <<>>
    /\ served = 0
    /\ tasks = <<>>
    /\ inflight = {FetchTasksRequest(0)}
    /\ moves = 0

\* The backend serves a GET /api/tasks of the page.
BackendGetTasks(f, io) ==
    /\ f \in inflight /\ f.kind = "getTasks" /\ f.phase = "sent"
    /\ \E first \in {getTasksHandler(store, io)} :
         IF first.next[1] # NoArgument
         THEN inflight' = (inflight \ {f}) \cup {[f EXCEPT !.phase = "rejected"]}
         ELSE \E second \in {legacyAdapterMiddleware(first.locals, now)} :
                inflight' = (inflight \ {f}) \cup
                            {[f EXCEPT !.phase = "resolved", !.data = second.locals.tasks]}
    /\ UNCHANGED <<tasks, moves, store, auditLog, req, res, lastWrite, served>>
    /\ UNCHANGED <<raw, result, now, pc, batchVars, callerVars>>

\* fetchTasks after the await: setTasks(r.data) on success, nothing on failure.
FetchTasksSettles(f) ==
    /\ f \in inflight /\ f.kind = "getTasks" /\ f.phase # "sent"
    /\ tasks' = IF f.phase = "resolved" THEN f.data.v ELSE tasks
    /\ inflight' = inflight \ {f}
    /\ UNCHANGED <<moves, routeVars>>
    /\ UNCHANGED <<raw, result, now, pc, batchVars, callerVars>>

\* handleDragEnd up to the await: the card `id` is dropped on the column
\* `target`.
HandleDragEnd(id, target) ==
    /\ moves < MaxMoves
    /\ \E i \in 1..Len(tasks) : tasks[i].id = id /\ tasks[i].status # target
    /\ tasks' = SetStatus(tasks, id, target)
    /\ inflight' = inflight \cup {UpdateTaskStatusRequest(moves + 1, id, target)}
    /\ moves' = moves + 1
    /\ UNCHANGED routeVars
    /\ UNCHANGED <<raw, result, now, pc, batchVars, callerVars>>

\* The backend serves a PATCH /api/tasks/:id of the page.
BackendPatchTask(p, io) ==
    /\ p \in inflight /\ p.kind = "updateTaskStatus" /\ p.phase = "sent"
    /\ \E done \in {patchTaskHandler(store, auditLog, authenticate(DevUserHeader).user,
                                     p.id.v, [status |-> p.status], io, now)} :
         /\ store' = done.store
         /\ auditLog' = done.auditLog
         /\ inflight' = (inflight \ {p}) \cup
                        {[p EXCEPT !.phase = IF done.res.status = 200 THEN "resolved" ELSE "rejected"]}
    /\ UNCHANGED <<tasks, moves, req, res, lastWrite, served>>
    /\ UNCHANGED <<raw, result, now, pc, batchVars, callerVars>>

\* handleDragEnd after the await: nothing on success, fetchTasks() on failure.
UpdateTaskStatusSettles(p) ==
    /\ p \in inflight /\ p.kind = "updateTaskStatus" /\ p.phase # "sent"
    /\ inflight' = (inflight \ {p}) \cup
                   (IF p.phase = "rejected" THEN {FetchTasksRequest(p.n)} ELSE {})
    /\ UNCHANGED <<tasks, moves, routeVars>>
    /\ UNCHANGED <<raw, result, now, pc, batchVars, callerVars>>

NextKanban ==
    \/ \E f \in inflight, io \in {"ok", "readFails"} : BackendGetTasks(f, io)
    \/ \E f \in inflight : FetchTasksSettles(f)
    \/ \E i \in 1..Len(tasks), target \in TaskStatus : HandleDragEnd(tasks[i].id, Str(target))
    \/ \E p \in inflight, io \in {"ok", "readFails", "auditFails"} : BackendPatchTask(p, io)
    \/ \E p \in inflight : UpdateTaskStatusSettles(p)

SpecKanban == InitKanban /\ [][NextKanban]_vars

(***************************************************************************)
(* Properties of the adapter.                                              *)
(***************************************************************************)
Returned == pc = "done" /\ result.t = "return"

\* The names the design document gives to the first and the third status.
BACKLOG == <<"B","A","C","K","L","O","G">>
IN_REVIEW == <<"I","N","_","R","E","V","I","E","W">>

\* A value of an alias key that counts as a value: a string with characters in it.
NonEmpty(x) == x.t = "string" /\ Len(x.v) > 0

\* C1: normalizeTask completes on every raw record without raising, and the
\* record it returns has all nine properties populated: none is undefined,
\* and none but dueDate (null when no due date is given) is null.
C1_TotalAndPopulated ==
    pc = "done" =>
        /\ result.t = "return"
        /\ DOMAIN result.v = {NormalizedTaskFields[i] : i \in 1..Len(NormalizedTaskFields)}
        /\ \A f \in DOMAIN result.v :
              /\ result.v[f].t # "undefined"
              /\ f # "dueDate" => result.v[f].t # "null"

\* C1 witness: a record whose due date cannot be parsed has been normalized.
C1_Witness ==
    /\ Returned
    /\ raw.due = Str(<<"n","o","t","-","a","-","d","a","t","e">>)
    /\ raw._id # Undefined

\* C2 (as claimed): the status of every returned record is one of the four
\* values of TaskStatus and its priority one of the four values of
\* TaskPriority, whatever the raw status and priority are.  The enumeration
\* is the one of types.ts, where the first and third status are named TODO
\* and REVIEW.
C2_EnumMembership ==
    pc = "done" =>
        /\ result.t = "return"
        /\ result.v.status.t = "string" /\ result.v.status.v \in TaskStatus
        /\ result.v.priority.t = "string" /\ result.v.priority.v \in TaskPriority

\* The canonical record of the empty raw record, but for its status.
EmptyDefaultsButStatus ==
    /\ result.t = "return"
    /\ result.v.title = Str(UntitledTask)
    /\ result.v.description = Str(<<>>)
    /\ result.v.priority = Str(MEDIUM)
    /\ result.v.assignee = Str(Unassigned)
    /\ result.v.dueDate = Null
    /\ result.v.tags = Arr(<<>>)

\* A raw record in which none of the keys the adapter reads is present.
IsEmptyRecord(r) == \A k \in DOMAIN r \ {"_id", "sys_id", "legacy_ref"} : r[k] = Undefined

\* C3 (amended): the empty raw record normalizes to the placeholder title,
\* an empty description, status TODO, priority MEDIUM, the Unassigned
\* sentinel, a null due date and no tags.
C3_EmptyDefaults ==
    pc = "done" /\ IsEmptyRecord(raw) =>
        EmptyDefaultsButStatus /\ result.v.status = Str(TODO)

\* C3 witness: the empty record {} has been normalized.
C3_Witness == Returned /\ raw = EmptyRaw

\* C3 (as claimed): the empty raw record normalizes to status BACKLOG.
C3_EmptyDefaults_AsClaimed ==
    pc = "done" /\ IsEmptyRecord(raw) =>
        EmptyDefaultsButStatus /\ result.v.status = Str(BACKLOG)

ReviewInputs == {Str(<<"2">>), Str(<<"r","e","v","i","e","w">>), Str(<<"p","e","n","d","i","n","g">>)}

LookupText(x) == IF Truthy(x) THEN trim(toLowerCase(String(x))) ELSE <<>>

\* The reference table of the status resolver, canonical values named as
\* in types.ts.
ReferenceStatus(x) ==
    LET k == LookupText(x)
    IN  CASE k \in {<<"t","o","d","o">>, <<"b","a","c","k","l","o","g">>, <<"o","p","e","n">>, <<"0">>} -> TODO
          [] k \in {<<"i","n","_","p","r","o","g","r","e","s","s">>, <<"i","n"," ","p","r","o","g","r","e","s","s">>,
                    <<"a","c","t","i","v","e">>, <<"w","i","p">>, <<"d","o","i","n","g">>, <<"1">>} -> IN_PROGRESS
          [] k \in {<<"r","e","v","i","e","w">>, <<"p","e","n","d","i","n","g">>,
                    <<"i","n","_","r","e","v","i","e","w">>, <<"2">>} -> REVIEW
          [] k \in {<<"d","o","n","e">>, <<"c","o","m","p","l","e","t","e","d">>, <<"c","l","o","s","e","d">>,
                    <<"f","i","n","i","s","h","e","d">>, <<"3">>} -> DONE
          [] OTHER -> TODO

\* C5 (as claimed): the status of the returned record is the one the
\* reference table gives for the raw status; every value outside the table,
\* and an absent status, gives the default status.
C5_StatusTable ==
    pc = "done" =>
        result.t = "return" /\ result.v.status = Str(ReferenceStatus(raw.status))

\* The reference table of the priority resolver.
ReferencePriority(x) ==
    LET k == LookupText(x)
    IN  CASE k \in {<<"l","o","w">>, <<"m","i","n","o","r">>, <<"1">>} -> LOW
          [] k \in {<<"m","e","d","i","u","m">>, <<"m","i","d">>, <<"n","o","r","m","a","l">>, <<"2">>} -> MEDIUM
          [] k \in {<<"h","i","g","h">>, <<"m","a","j","o","r">>, <<"3">>} -> HIGH
          [] k \in {<<"c","r","i","t","i","c","a","l">>, <<"b","l","o","c","k","e","r">>,
                    <<"u","r","g","e","n","t">>, <<"4">>} -> CRITICAL
          [] OTHER -> MEDIUM

\* C6 (as claimed): the priority of the returned record is the one the
\* reference table gives for the raw priority; every value outside the
\* table, and an absent priority, gives MEDIUM.
C6_PriorityTable ==
    pc = "done" =>
        result.t = "return" /\ result.v.priority = Str(ReferencePriority(raw.priority))

\* C7: a status code 0..3 or a priority code 1..4 given as a number
\* normalizes to the same canonical value as the same code given as a string.
C7_NumberEqualsString ==
    pc = "done" =>
        /\ raw.status.t = "number" /\ raw.status.v \in 0..3 =>
              /\ result.t = "return"
              /\ result.v.status = resolveStatus([raw EXCEPT !.status = Str(NumberToString(raw.status.v))])
              /\ result.v.status.v \in TaskStatus
        /\ raw.priority.t = "number" /\ raw.priority.v \in 1..4 =>
              /\ result.t = "return"
              /\ result.v.priority = resolvePriority([raw EXCEPT !.priority = Str(NumberToString(raw.priority.v))])
              /\ result.v.priority.v \in TaskPriority

\* C7 witness: a record with the numeric status code 1 has been normalized
\* to IN_PROGRESS.
C7_Witness == Returned /\ raw.status = Num(1) /\ result.v.status = Str(IN_PROGRESS)

\* C8 (amended): any two status labels that differ only in letter case or
\* only in leading or trailing whitespace normalize to the same status.
C8_CaseAndOuterWhitespace ==
    pc = "done" /\ raw.status.t = "string" =>
        \A label \in Labels :
            raw.status.v \in Variants(label) =>
                \A other \in Variants(label) :
                    /\ result.t = "return"
                    /\ resolveStatus([raw EXCEPT !.status = Str(other)]) = result.v.status

\* C8 witness: the label "Done" with a space on either side has been
\* normalized to DONE.
C8_Witness ==
    Returned /\ raw.status = Str(<<" ","D","o","n","e"," ">>) /\ result.v.status = Str(DONE)

\* A text with its leading and trailing whitespace dropped and every run of
\* whitespace between its words made one space.
RECURSIVE CollapseWhiteSpace(_)
CollapseWhiteSpace(s) ==
    LET u == trim(s)
        gaps == {i \in 1..Len(u) : u[i] \in WhiteSpace}
    IN  IF gaps = {} THEN u
        ELSE LET i == CHOOSE k \in gaps : \A j \in gaps : k <= j
             IN  SubSeq(u, 1, i - 1) \o <<" ">> \o CollapseWhiteSpace(SubSeq(u, i + 1, Len(u)))

\* C8 (as claimed): any two status labels that differ only in letter case or
\* only in whitespace, be it leading, trailing or between words, normalize
\* to the same status.
C8_AnyWhitespace_AsClaimed ==
    pc = "done" /\ raw.status.t = "string" =>
        \A other \in LabelTexts :
            CollapseWhiteSpace(toLowerCase(other)) = CollapseWhiteSpace(toLowerCase(raw.status.v)) =>
                /\ result.t = "return"
                /\ resolveStatus([raw EXCEPT !.status = Str(other)]) = result.v.status

\* C9: the title is the first non-empty value among title, name and
\* task_name, in that order, and the placeholder when there is none; it is
\* never empty.
C9_TitlePriority ==
    pc = "done" =>
        /\ result.t = "return"
        /\ result.v.title =
              (IF NonEmpty(raw.title) THEN raw.title
               ELSE IF NonEmpty(raw.name) THEN raw.name
               ELSE IF NonEmpty(raw.task_name) THEN raw.task_name
               ELSE Str(UntitledTask))
        /\ NonEmpty(result.v.title)

\* C9 witness: a record with both title and name set has been given its title.
C9_Witness ==
    /\ Returned
    /\ NonEmpty(raw.title) /\ NonEmpty(raw.name) /\ raw.title # raw.name
    /\ result.v.title = raw.title

\* C10: the assignee is the first non-empty value among assignee, owner and
\* member, in that order, and the Unassigned sentinel when there is none; it
\* is never empty.
C10_AssigneePriority ==
    pc = "done" =>
        /\ result.t = "return"
        /\ result.v.assignee =
              (IF NonEmpty(raw.assignee) THEN raw.assignee
               ELSE IF NonEmpty(raw.owner) THEN raw.owner
               ELSE IF NonEmpty(raw.member) THEN raw.member
               ELSE Str(Unassigned))
        /\ NonEmpty(result.v.assignee)

\* C10 witness: a record with no assignee alias set has been given the sentinel.
C10_Witness ==
    /\ Returned
    /\ ~NonEmpty(raw.assignee) /\ ~NonEmpty(raw.owner) /\ ~NonEmpty(raw.member)
    /\ raw.assignee = Str(<<>>)
    /\ result.v.assignee = Str(Unassigned)


\* The stretches of a text between its commas, each named by the position
\* it starts at.
PieceStarts(s) == {1} \cup {i + 1 : i \in {j \in 1..Len(s) : s[j] = ","}}

PieceAt(s, a) ==
    LET stops == {j \in a..Len(s) : s[j] = ","} \cup {Len(s) + 1}
    IN  SubSeq(s, a, (CHOOSE j \in stops : \A k \in stops : j <= k) - 1)

\* A text that has a character and neither starts nor ends with whitespace.
IsTrimmedNonEmpty(s) == Len(s) > 0 /\ s[1] \notin WhiteSpace /\ s[Len(s)] \notin WhiteSpace

\* The characters of a text from its first to its last non-whitespace one.
Core(s) ==
    LET solid == {i \in 1..Len(s) : s[i] \notin WhiteSpace}
    IN  [k \in 1..Cardinality({i \in 1..Len(s) : \E a \in solid, b \in solid : a <= i /\ i <= b}) |->
            s[k - 1 + CHOOSE a \in solid : \A b \in solid : a <= b]]

\* C11: a tags string is split on its commas, each piece trimmed, the empty
\* pieces dropped and the remaining ones kept in their order.
C11_TagsFromString ==
    pc = "done" /\ raw.tags.t = "string" =>
        LET s == raw.tags.v
            kept == {a \in PieceStarts(s) : \E i \in 1..Len(PieceAt(s, a)) : PieceAt(s, a)[i] \notin WhiteSpace}
            nth(k) == CHOOSE a \in kept : Cardinality({b \in kept : b < a}) = k - 1
        IN  /\ result.t = "return"
            /\ result.v.tags.t = "array"
            /\ Len(result.v.tags.v) = Cardinality(kept)
            /\ \A k \in 1..Cardinality(kept) : result.v.tags.v[k] = Str(Core(PieceAt(s, nth(k))))

\* C11 witness: "a, b ,c" has been normalized to a, b, c.
C11_Witness ==
    /\ Returned
    /\ raw.tags = Str(<<"a",","," ","b"," ",",","c">>)
    /\ result.v.tags = Arr(<<Str(<<"a">>), Str(<<"b">>), Str(<<"c">>)>>)

\* C12 (amended): when the raw tags are absent, a string or a number, every
\* tag of the canonical record is a non-empty string without leading or
\* trailing whitespace; when they are a sequence already, the canonical tags
\* are that sequence, element for element.
C12_TagsTrimmedUnlessSequence ==
    pc = "done" =>
        /\ result.t = "return"
        /\ result.v.tags.t = "array"
        /\ IF raw.tags.t = "array" THEN result.v.tags = raw.tags
           ELSE \A k \in 1..Len(result.v.tags.v) :
                    result.v.tags.v[k].t = "string" /\ IsTrimmedNonEmpty(result.v.tags.v[k].v)

\* C12 witness: a string of commas and blanks only has been normalized to no tags.
C12_Witness == Returned /\ raw.tags = Str(<<","," ",",">>) /\ result.v.tags = Arr(<<>>)

\* C12 (as claimed): whatever shape the raw tags had, every tag of the
\* canonical record is a non-empty string without leading or trailing
\* whitespace.
C12_TagsTrimmed_AsClaimed ==
    pc = "done" =>
        /\ result.t = "return"
        /\ result.v.tags.t = "array"
        /\ \A k \in 1..Len(result.v.tags.v) :
              result.v.tags.v[k].t = "string" /\ IsTrimmedNonEmpty(result.v.tags.v[k].v)

\* The first of the due-date aliases that holds a non-empty value; Null when none does.
FirstNonEmptyDue(r) ==
    IF NonEmpty(r.due) THEN r.due
    ELSE IF NonEmpty(r.due_date) THEN r.due_date
    ELSE IF NonEmpty(r.deadline) THEN r.deadline
    ELSE Null

\* The first of the due-date aliases that is present (neither undefined nor null).
FirstNonNullDue(r) ==
    IF r.due.t \notin {"undefined", "null"} THEN r.due
    ELSE IF r.due_date.t \notin {"undefined", "null"} THEN r.due_date
    ELSE IF r.deadline.t \notin {"undefined", "null"} THEN r.deadline
    ELSE Null

\* The due-date texts of the model that are no dates.
UnparsableTexts ==
    {<<"n","o","t","-","a","-","d","a","t","e">>,
     <<"s","o","o","n">>,
     <<"2","0","2","4","-","1","3","-","4","5">>}

\* The ISO-8601 timestamp of a date text of the model: a date alone is
\* midnight UTC of that day, a timestamp is itself.
ExpectedIso(s) ==
    IF Len(s) = 10
    THEN s \o <<"T","0","0",":","0","0",":","0","0",".","0","0","0","Z">>
    ELSE s

\* What the due-date text x, once selected, is resolved to.
DueOutcome(x) ==
    IF x.t = "null" THEN Null
    ELSE IF x.v \in UnparsableTexts \cup {<<>>} THEN x
    ELSE Str(ExpectedIso(x.v))

\* YYYY-MM-DDTHH:mm:ss.sssZ
IsIsoTimestamp(s) ==
    /\ Len(s) = 24
    /\ s[5] = "-" /\ s[8] = "-" /\ s[11] = "T" /\ s[14] = ":" /\ s[17] = ":" /\ s[20] = "." /\ s[24] = "Z"
    /\ \A i \in (1..23) \ {5, 8, 11, 14, 17, 20} : IndexIn(s[i], DecimalDigits) > 0

C14_ParsableToIso ==
    pc = "done" /\ FirstNonEmptyDue(raw).t = "string" /\ FirstNonEmptyDue(raw).v \notin UnparsableTexts =>
        /\ result.t = "return"
        /\ result.v.dueDate = Str(ExpectedIso(FirstNonEmptyDue(raw).v))
        /\ IsIsoTimestamp(result.v.dueDate.v)

\* C14 witness: due_date = "2024-04-15" has been resolved to midnight UTC of
\* that day, which is not the raw text.
C14_Witness ==
    /\ Returned
    /\ raw.due_date = Str(<<"2","0","2","4","-","0","4","-","1","5">>)
    /\ result.v.dueDate = Str(<<"2","0","2","4","-","0","4","-","1","5","T","0","0",":","0","0",":","0","0",".","0","0","0","Z">>)
    /\ result.v.dueDate # raw.due_date

\* C15 (amended): the value resolveDueDate works on is the first non-empty
\* value among due, due_date and deadline, in that order, and the result is
\* null exactly when none of the three holds a non-empty value; an empty due
\* is skipped in favour of due_date or deadline.
C15_FirstNonEmptySelected ==
    pc = "done" =>
        /\ result.t = "return"
        /\ result.v.dueDate = DueOutcome(FirstNonEmptyDue(raw))
        /\ result.v.dueDate = Null <=> FirstNonEmptyDue(raw) = Null

\* C15 witness: an empty due has been skipped in favour of due_date.
C15_Witness ==
    /\ Returned
    /\ raw.due = Str(<<>>)
    /\ raw.due_date = Str(<<"2","0","2","4","-","0","4","-","1","5">>)
    /\ result.v.dueDate = Str(<<"2","0","2","4","-","0","4","-","1","5","T","0","0",":","0","0",":","0","0",".","0","0","0","Z">>)

\* C15 (as claimed): the value resolveDueDate works on is the first non-null
\* value among due, due_date and deadline, an empty one included, and the
\* result is null only when none of the three is present.
C15_FirstNonNullSelected_AsClaimed ==
    pc = "done" =>
        /\ result.t = "return"
        /\ result.v.dueDate = DueOutcome(FirstNonNullDue(raw))
        /\ result.v.dueDate = Null <=> FirstNonNullDue(raw) = Null

\* C16 (as claimed): the due date of every canonical record is null or a
\* string in ISO-8601 timestamp form.
C16_DueDateNullOrIso ==
    pc = "done" =>
        /\ result.t = "return"
        /\ \/ result.v.dueDate = Null
           \/ result.v.dueDate.t = "string" /\ IsIsoTimestamp(result.v.dueDate.v)


\* C17: the middleware sets res.locals.tasks to as many canonical records as
\* there are raw records, and the record at each position is the
\* normalization of the raw record at that position and carries its id.
C17_BatchOrderPreserved ==
    pc = "done" /\ locals.rawTasks.t = "array" =>
        /\ locals.tasks.t = "array"
        /\ Len(locals.tasks.v) = Len(locals.rawTasks.v)
        /\ \A i \in 1..Len(locals.rawTasks.v) :
              /\ locals.tasks.v[i].id = Str(locals.rawTasks.v[i]._id.v)
              /\ \E c \in 0..now : locals.tasks.v[i] = normalizeTask(locals.rawTasks.v[i], c).v
        /\ nextCalls = <<NoArgument>>

\* C17 witness: three documents with three ids have been normalized in a batch.
C17_Witness ==
    /\ pc = "done"
    /\ locals.rawTasks.t = "array" /\ locals.tasks.t = "array"
    /\ Len(locals.tasks.v) = 3
    /\ locals.tasks.v[1].id = Str(<<"c","3">>)
    /\ locals.tasks.v[2].id = Str(<<"a","1">>)
    /\ locals.tasks.v[3].id = Str(<<"b","2">>)


\* C18 (as stated): changing the record normalizeTask returned, here by
\* pushing onto its tags, never changes the raw document.  It fails when the
\* raw tags are an array: the result's tags are that array.
C18_NoAliasing == [][pushes' # pushes => raw' = raw]_vars

ExceptNormalizedAt(task) ==
    [f \in {"id", "title", "description", "status", "priority", "assignee", "dueDate", "tags"} |-> task[f]]

\* C20: any two calls on equal raw documents, whatever was called between
\* them and whenever, return records equal in every field but normalizedAt.
C20_DeterministicButTimestamp ==
    \A i, j \in 1..Len(calls) :
        calls[i].input = calls[j].input =>
            /\ calls[i].output.t = "return" /\ calls[j].output.t = "return"
            /\ ExceptNormalizedAt(calls[i].output.v) = ExceptNormalizedAt(calls[j].output.v)

\* C20 witness: two calls on equal documents held separately, at different
\* times, with a call on a different document between them.
C20_Witness ==
    /\ Len(calls) = 3
    /\ calls[1].on = "raw" /\ calls[2].on = "raw" /\ calls[3].on = "raw2"
    /\ calls[1].input = calls[3].input
    /\ calls[2].input # calls[1].input
    /\ calls[1].output.v.normalizedAt # calls[3].output.v.normalizedAt
    /\ calls[1].output.v.dueDate = Null


\* Values a key the adapter does not know may hold.
UnknownKeyValues == {Undefined, Str(<<"S">>), Str(<<"J">>), Num(7)}

\* C21: a document that differs from the normalized one in its unknown keys
\* only (sys_id, legacy_ref) normalizes, at any time, to a record equal to
\* the result in every field but normalizedAt.
C21_UnknownKeysIgnored ==
    Returned =>
        \A x, y \in UnknownKeyValues : \A c \in 0..now :
            LET twin == normalizeTask([raw EXCEPT !.sys_id = x, !.legacy_ref = y], c)
            IN  /\ twin.t = "return"
                /\ ExceptNormalizedAt(twin.v) = ExceptNormalizedAt(result.v)

\* C21 witness: a document with no title alias and both unknown keys set
\* has been normalized; its title is the placeholder.
C21_Witness ==
    /\ Returned
    /\ raw.sys_id = Str(<<"S">>) /\ raw.legacy_ref = Str(<<"J">>)
    /\ raw.title = Undefined /\ raw.name = Undefined /\ raw.task_name = Undefined
    /\ result.v.title = Str(UntitledTask)

\* Documents whose ids are compared with the id of the result.
IdProbes == BaseRecords \cup UnreadKeyInputs \cup BatchRecords \cup CallerRecords

\* C22: the id is the document's _id as text, and a document normalizes to
\* the same id exactly when it has the same _id, whatever its other keys.
C22_IdCarriedThrough ==
    Returned =>
        /\ raw._id.t = "objectid" => result.v.id = Str(raw._id.v)
        /\ \A probe \in IdProbes : \A c \in 0..now :
              (normalizeTask(probe, c).v.id = result.v.id) <=> (probe._id = raw._id)

\* C22 witness: the document b2, which carries a legacy system id, has been
\* normalized to the id b2.
C22_Witness ==
    /\ Returned
    /\ raw._id = ObjectId(<<"b","2">>) /\ raw.sys_id = Str(<<"S">>)
    /\ result.v.id = Str(<<"b","2">>)

\* C26 (as stated): the status "2" normalizes to IN_PROGRESS and the number
\* 3 to REVIEW, as the doc comment of resolveStatus has it.
C26_DocCommentExamples ==
    Returned =>
        /\ raw.status = Str(<<"2">>) => result.v.status = Str(IN_PROGRESS)
        /\ raw.status = Num(3) => result.v.status = Str(REVIEW)

\* The spellings of "in progress" found in the legacy data.
InProgressSpellings ==
    {<<"i","n"," ","p","r","o","g","r","e","s","s">>,
     <<"i","n","_","p","r","o","g","r","e","s","s">>,
     <<"i","n","-","p","r","o","g","r","e","s","s">>}

\* C27 (as stated): every spelling of "in progress" found in the legacy
\* data, the hyphenated one of the seeded tasks included, normalizes to
\* IN_PROGRESS.
C27_InProgressSpellings ==
    Returned /\ LookupText(raw.status) \in InProgressSpellings =>
        result.v.status = Str(IN_PROGRESS)


C24_EmployeeCannotEditOrDelete ==
    [][(/\ served' # served
        /\ req'.method \in {"PATCH", "DELETE"}
        /\ req'.user # Undefined
        /\ req'.user.v.role = "EMPLOYEE") => store' = store]_vars

\* The audit action of a route.
AuditAction(method) ==
    CASE method = "POST" -> "TASK_CREATED"
      [] method = "PATCH" -> "TASK_STATUS_UPDATED"
      [] method = "DELETE" -> "TASK_DELETED"

\* C25 (as stated): a request that changes the collection adds one entry to
\* the audit log, for its action.
C25_EveryActionTracked ==
    [][store' # store =>
        /\ Len(auditLog') = Len(auditLog) + 1
        /\ auditLog'[Len(auditLog')].action = AuditAction(req'.method)]_vars

\* C28: a task the API wrote last with status S (and, at creation, priority
\* P) is stored with them in lower case and resolves to S (and P); the
\* response to the write carries S, and a later GET lists the task with S.
C28_StatusRoundTrip ==
    /\ \A id \in DOMAIN lastWrite :
          \E i \in FindById(store, id) :
              /\ store[i].status = Str(toLowerCase(lastWrite[id].status))
              /\ resolveStatus(store[i]) = Str(lastWrite[id].status)
              /\ lastWrite[id].priority # <<>> =>
                    /\ store[i].priority = Str(toLowerCase(lastWrite[id].priority))
                    /\ resolvePriority(store[i]) = Str(lastWrite[id].priority)
    /\ res.status \in {200, 201} /\ req.method \in {"POST", "PATCH"} =>
          res.body.data.status = req.body.status
    /\ res.status = 201 => res.body.data.priority = req.body.priority
    /\ res.status = 200 /\ req.method = "GET" =>
          \A k \in 1..Len(res.body.data.v) :
              LET task == res.body.data.v[k]
              IN  task.id.v \in DOMAIN lastWrite =>
                     /\ task.status = Str(lastWrite[task.id.v].status)
                     /\ lastWrite[task.id.v].priority # <<>> =>
                           task.priority = Str(lastWrite[task.id.v].priority)

\* C28 witness: a task created IN_PROGRESS has been read back by GET.
C28_Witness ==
    /\ req.method = "GET" /\ res.status = 200
    /\ \E k \in 1..Len(res.body.data.v) :
          /\ res.body.data.v[k].id.v \in DOMAIN lastWrite
          /\ lastWrite[res.body.data.v[k].id.v].status = IN_PROGRESS
          /\ res.body.data.v[k].status = Str(IN_PROGRESS)

\* C29: the middleware calls next exactly once: with the error, and without
\* setting res.locals.tasks, when an element of rawTasks makes normalizeTask
\* raise; with no argument after setting res.locals.tasks when rawTasks is
\* there; with no argument, res.locals.tasks untouched, when it is not.
C29_NextExactlyOnce ==
    /\ pc = "ready" => nextCalls = <<>>
    /\ pc = "done" =>
          /\ Len(nextCalls) = 1
          /\ IF ~Truthy(locals.rawTasks)
             THEN nextCalls[1] = NoArgument /\ locals.tasks = Undefined
             ELSE IF \E i \in 1..Len(locals.rawTasks.v) : locals.rawTasks.v[i] = Null
             THEN nextCalls[1] = Throw(TypeError) /\ locals.tasks = Undefined
             ELSE /\ nextCalls[1] = NoArgument
                  /\ locals.tasks.t = "array"
                  /\ Len(locals.tasks.v) = Len(locals.rawTasks.v)

\* C29 witness: the second of two elements made normalizeTask raise.
C29_Witness ==
    /\ pc = "done"
    /\ locals.rawTasks.t = "array"
    /\ Len(locals.rawTasks.v) = 2
    /\ locals.rawTasks.v[1] # Null /\ locals.rawTasks.v[2] = Null
    /\ nextCalls = <<Throw(TypeError)>>


\* C30 (as stated): once no request of the page is in flight, every task
\* on the page shows the status its document in the collection normalizes
\* to.
C30_BoardMatchesStore ==
    inflight = {} =>
        \A i \in 1..Len(tasks) :
            \E j \in FindById(store, tasks[i].id.v) : tasks[i].status = resolveStatus(store[j])

====
